---------------------------- MODULE Spec2Model ----------------------------
(***************************************************************************)
(* Model of pyknow/rule.py: the conditional elements Rule, AND, OR and NOT, *)
(* their get_activations evaluation against a fact list, and the two-phase *)
(* Rule.__call__ consequence binding.                                      *)
(*                                                                         *)
(* FactList, Fact, Context and Activation live in other modules of the     *)
(* package; they are modelled at their boundary: a fact list is a sequence *)
(* of facts whose index (from 0) is the fact id, matches(pattern) returns  *)
(* the (id, Context) pairs of the facts equal to the pattern in insertion  *)
(* order, and two Activations are equal when rule, facts and contexts are. *)
(***************************************************************************)
EXTENDS Integers, Sequences, FiniteSets, TLC

VARIABLES
    facts,      \* the FactList: sequence of stored facts, id = index - 1
    ce,         \* the conditional element most recently constructed
    res,        \* outcome of the last get_activations call on ce
    fn,         \* ce's bound consequence (Rule.__fn)
    callres     \* outcome of the last __call__ invocation on ce

vars == <<facts, ce, res, fn, callres>>

-----------------------------------------------------------------------------
(* Bounds *)

MaxFacts == 2       \* colour facts a fact list holds besides the sentinel
MaxConds == 2       \* children given to one constructor call
MaxDepth == 2       \* nesting depth of a conditional element
MaxSeed == 1        \* enumeration orders tried for tuple(set(...))
FlatFacts == 4      \* colour facts, when only leaf patterns are composed
DeepFacts == 1      \* colour facts, when elements nest up to DeepDepth
DeepDepth == 3      \* nesting depth explored over the small fact lists
MaxArgs == 2        \* positional arguments of one __call__

-----------------------------------------------------------------------------
(* Values *)

Colours == {"red", "blue"}

\* A Context is a set of <<variable, value>> bindings.
EmptyContext == {}

\* The Context a stored fact yields when a pattern matches it.
ContextOf(fact) == IF fact = "InitialFact" THEN EmptyContext
                   ELSE {<<"color", fact>>}

\* A dictionary value: Python's None, or a Context.
None == [none |-> TRUE, b |-> {}]
Ctx(c) == [none |-> FALSE, b |-> c]

\* What an Activation's facts (and the keys of a contexts dict) hold: a fact
\* id, or a whole (id, Context) pair.
Id(i) == [pair |-> FALSE, id |-> i, ctx |-> {}]
Pair(i, c) == [pair |-> TRUE, id |-> i, ctx |-> c]

Activation(rule, fs, contexts) ==
    [rule |-> rule, facts |-> fs, contexts |-> contexts]

\* Leaf patterns and composite conditional elements.
Fact(colour) == [type |-> "Fact", pat |-> colour, conds |-> <<>>]
InitialFact == [type |-> "InitialFact", pat |-> "InitialFact", conds |-> <<>>]

RuleTypes == {"Rule", "AND", "OR", "NOT"}

IsRule(cond) == cond.type \in RuleTypes
IsFact(cond) == cond.type \in {"Fact", "InitialFact"}

\* Rule.__init__: no conditions installs a single InitialFact pattern.
RuleInit(type, conds) ==
    [type |-> type, pat |-> "",
     conds |-> IF conds = <<>> THEN <<InitialFact>> ELSE conds]

RECURSIVE Depth(_)
Depth(c) ==
    IF IsFact(c) THEN 0
    ELSE 1 + (CHOOSE m \in 0..(MaxDepth + DeepDepth) :
                /\ \A i \in 1..Len(c.conds) : Depth(c.conds[i]) <= m
                /\ \E i \in 1..Len(c.conds) : Depth(c.conds[i]) = m)

-----------------------------------------------------------------------------
(* Sequence helpers standing for Python built-ins *)

RECURSIVE Concat(_)
Concat(ss) == IF ss = <<>> THEN <<>> ELSE Head(ss) \o Concat(Tail(ss))

\* Product with the candidates paired position by position (zip).
ProductZip(dims) ==
    IF dims = <<>> THEN << <<>> >>
    ELSE LET n == CHOOSE m \in 0..Len(dims[1]) :
                     /\ \A d \in 1..Len(dims) : m <= Len(dims[d])
                     /\ \E d \in 1..Len(dims) : m = Len(dims[d])
         IN [i \in 1..n |-> [d \in 1..Len(dims) |-> dims[d][i]]]

\* itertools.product(*dims): the last dimension varies fastest.
RECURSIVE Product(_)
Product(dims) ==
    IF dims = <<>> THEN << <<>> >>
    ELSE LET rest == Product(Tail(dims))
             h == Head(dims)
         IN Concat([i \in 1..Len(h) |->
                      [j \in 1..Len(rest) |-> <<h[i]>> \o rest[j]]])

\* d[k] = v on an insertion-ordered dict held as a sequence of entries.
DictSet(d, k, v) ==
    IF \E i \in 1..Len(d) : d[i].key = k
    THEN [i \in 1..Len(d) |-> IF d[i].key = k THEN [key |-> k, val |-> v]
                              ELSE d[i]]
    ELSE Append(d, [key |-> k, val |-> v])

\* dict(pairs): first insertion fixes the position, the last value wins.
RECURSIVE DictFrom(_, _)
DictFrom(d, pairs) ==
    IF pairs = <<>> THEN d
    ELSE DictFrom(DictSet(d, Head(pairs).key, Head(pairs).val), Tail(pairs))

Dict(pairs) == DictFrom(<<>>, pairs)

\* dict.get(k, default)
DictGet(d, k, default) ==
    IF \E i \in 1..Len(d) : d[i].key = k
    THEN d[CHOOSE i \in 1..Len(d) : d[i].key = k].val
    ELSE default

Keys(d) == [i \in 1..Len(d) |-> d[i].key]

\* sorted(keys) raises TypeError when ids and pairs are mixed.
Unorderable(ks) ==
    \E i, j \in 1..Len(ks) : ks[i].pair /= ks[j].pair

Sorted(ks) == SortSeq(ks, LAMBDA a, b : a.id < b.id)

\* set(seq) keeps one of each: first occurrences, in order.
RECURSIVE Dedup(_)
Dedup(s) ==
    IF s = <<>> THEN <<>>
    ELSE LET front == Dedup(SubSeq(s, 1, Len(s) - 1))
             last == s[Len(s)]
         IN IF \E i \in 1..Len(front) : front[i] = last THEN front
            ELSE Append(front, last)

\* The order in which a set is enumerated is not fixed; seed picks one.
RECURSIVE Permute(_, _)
Permute(s, seed) ==
    IF s = <<>> THEN <<>>
    ELSE LET k == (seed % Len(s)) + 1
             rest == [i \in 1..(Len(s) - 1) |-> IF i < k THEN s[i] ELSE s[i + 1]]
         IN <<s[k]>> \o Permute(rest, seed \div Len(s))

\* tuple(set(seq))
TupleOfSet(s, seed) == Permute(Dedup(s), seed)

-----------------------------------------------------------------------------
(* The fact list *)

StoreKinds == {"FactList", "Duck", "None"}

IsFactList(store) == store.kind = "FactList"
HasMatches(store) == store.kind \in {"FactList", "Duck"}

\* FactList.matches(pattern)
RECURSIVE MatchesFrom(_, _, _)
MatchesFrom(fl, pat, i) ==
    IF i > Len(fl) THEN <<>>
    ELSE (IF fl[i] = pat
          THEN <<[key |-> Id(i - 1), val |-> Ctx(ContextOf(fl[i]))]>>
          ELSE <<>>) \o MatchesFrom(fl, pat, i + 1)

Matches(store, cond) == MatchesFrom(store.facts, cond.pat, 1)


-----------------------------------------------------------------------------
(* get_activations *)

\* What one get_activations call does: the exception it raises (or "none"),
\* the tuple it returns, the children of self it started to evaluate (by
\* position, in order) and the number of matches() calls made on the store,
\* nested calls included.
Returned(acts, evald, nmatch) ==
    [err |-> "none", acts |-> acts, evald |-> evald, nmatch |-> nmatch]

Raised(err, evald, nmatch) ==
    [err |-> err, acts |-> <<>>, evald |-> evald, nmatch |-> nmatch]

LoopStart ==
    [status |-> "run", err |-> "none", matches |-> <<>>, evald |-> <<>>,
     nmatch |-> 0]

\* Rule: every fact of every activation of a composite child becomes a
\* candidate list of its own, holding that one (fact, context) pair.
RECURSIVE ActSlots(_)
ActSlots(acts) ==
    IF acts = <<>> THEN <<>>
    ELSE LET act == Head(acts)
         IN [i \in 1..Len(act.facts) |->
               <<[key |-> act.facts[i],
                  val |-> DictGet(Dict(act.contexts), act.facts[i], None)]>>]
            \o ActSlots(Tail(acts))

\* OR: every fact of every activation of a composite child is accumulated.
RECURSIVE ActFacts(_)
ActFacts(acts) ==
    IF acts = <<>> THEN <<>>
    ELSE Head(acts).facts \o ActFacts(Tail(acts))

RECURSIVE get_activations(_, _, _)
RECURSIVE RuleConds(_, _, _, _, _)
RECURSIVE ORConds(_, _, _, _, _)
RECURSIVE ORPasses(_, _, _, _, _)

\* Rule.get_activations._activations: the loop over self.__conds from
\* position i on.  status "run" at the end is the loop's else branch.
RuleConds(self, factlist, seed, i, st) ==
    IF i > Len(self.conds) THEN st
    ELSE LET cond == self.conds[i]
             ev == Append(st.evald, i)
         IN IF IsRule(cond)
            THEN LET r == get_activations(cond, factlist, seed)
                     nm == st.nmatch + r.nmatch
                 IN IF r.err /= "none"
                    THEN [st EXCEPT !.status = "raise", !.err = r.err,
                                    !.evald = ev, !.nmatch = nm]
                    ELSE IF r.acts = <<>>
                    THEN [st EXCEPT !.status = "break", !.evald = ev,
                                    !.nmatch = nm]
                    ELSE RuleConds(self, factlist, seed, i + 1,
                            [st EXCEPT !.matches = @ \o ActSlots(r.acts),
                                       !.evald = ev, !.nmatch = nm])
            ELSE LET match == Matches(factlist, cond)
                 IN IF match /= <<>>
                    THEN RuleConds(self, factlist, seed, i + 1,
                            [st EXCEPT !.matches = Append(@, match),
                                       !.evald = ev, !.nmatch = @ + 1])
                    ELSE [st EXCEPT !.status = "break", !.evald = ev,
                                    !.nmatch = @ + 1]

\* The activation built from one tuple of the product.
RuleActivation(self, match) ==
    LET contexts == Dict(match)
    IN Activation(self, Sorted(Keys(contexts)), contexts)

RuleGetActivations(self, factlist, seed) ==
    IF ~IsFactList(factlist) THEN Raised("ValueError", <<>>, 0)
    ELSE LET st == RuleConds(self, factlist, seed, 1, LoopStart)
         IN IF st.status = "raise" THEN Raised(st.err, st.evald, st.nmatch)
            ELSE IF st.status = "break" THEN Returned(<<>>, st.evald, st.nmatch)
            ELSE LET tuples == Product(st.matches)
                 IN IF \E t \in 1..Len(tuples) :
                           Unorderable(Keys(Dict(tuples[t])))
                    THEN Raised("TypeError", st.evald, st.nmatch)
                    ELSE LET yielded ==
                                 [t \in 1..Len(tuples) |->
                                    RuleActivation(self, tuples[t])]
                             emitted ==
                                 SelectSeq(yielded, LAMBDA a : a.facts /= <<>>)
                         IN Returned(TupleOfSet(emitted, seed),
                                     st.evald, st.nmatch)

\* NOT.get_activations handing on the activations of its conjunction.
NOTKeepsActivations(self, factlist, seed) ==
    LET r == RuleGetActivations(self, factlist, seed)
    IN IF r.err /= "none" \/ r.acts /= <<>> THEN r
       ELSE LET m == Matches(factlist, InitialFact)
            IN IF m = <<>> THEN Returned(<<>>, r.evald, r.nmatch + 1)
               ELSE Returned(
                      <<Activation(self, <<m[1].key>>,
                                   <<[key |-> m[1].key, val |-> m[1].val]>>)>>,
                      r.evald, r.nmatch + 1)

\* NOT.get_activations
NOTGetActivations(self, factlist, seed) ==
    LET r == RuleGetActivations(self, factlist, seed)
    IN IF r.err /= "none" THEN r
       ELSE IF r.acts /= <<>> THEN Returned(<<>>, r.evald, r.nmatch)
       ELSE LET m == Matches(factlist, InitialFact)
            IN IF m = <<>> THEN Returned(<<>>, r.evald, r.nmatch + 1)
               ELSE Returned(
                      <<Activation(self, <<m[1].key>>,
                                   <<[key |-> m[1].key, val |-> m[1].val]>>)>>,
                      r.evald, r.nmatch + 1)

\* OR.get_activations: the inner loop over self.__conds from position j on.
\* matches holds fact[0] of every accumulated element.
ORConds(self, factlist, seed, j, st) ==
    IF j > Len(self.conds) THEN st
    ELSE LET cond == self.conds[j]
             ev == Append(st.evald, j)
         IN IF IsRule(cond)
            THEN LET r == get_activations(cond, factlist, seed)
                     nm == st.nmatch + r.nmatch
                 IN IF r.err /= "none"
                    THEN [st EXCEPT !.status = "raise", !.err = r.err,
                                    !.evald = ev, !.nmatch = nm]
                    ELSE IF r.acts = <<>>
                    THEN [st EXCEPT !.status = "break", !.evald = ev,
                                    !.nmatch = nm]
                    ELSE ORConds(self, factlist, seed, j + 1,
                            [st EXCEPT !.matches = @ \o ActFacts(r.acts),
                                       !.evald = ev, !.nmatch = nm])
            ELSE IF ~HasMatches(factlist)
            THEN [st EXCEPT !.status = "raise", !.err = "AttributeError",
                            !.evald = ev]
            ELSE LET match == Matches(factlist, cond)
                     st1 == [st EXCEPT !.evald = ev, !.nmatch = @ + 1]
                 IN ORConds(self, factlist, seed, j + 1,
                       IF match /= <<>>
                       THEN [st1 EXCEPT !.matches =
                               Append(@, Pair(match[1].key.id, match[1].val.b))]
                       ELSE st1)

\* The outer loop of OR.get_activations, pass k of Len(self.__conds).
ORPasses(self, factlist, seed, k, st) ==
    IF k > Len(self.conds) THEN st
    ELSE LET st1 == ORConds(self, factlist, seed, 1,
                            [st EXCEPT !.status = "run"])
         IN IF st1.status = "raise" THEN st1
            ELSE ORPasses(self, factlist, seed, k + 1, st1)

ORGetActivations(self, factlist, seed) ==
    LET st == ORPasses(self, factlist, seed, 1, LoopStart)
    IN IF st.status = "raise" THEN Raised(st.err, st.evald, st.nmatch)
       ELSE IF st.matches /= <<>>
       THEN Returned(<<Activation(self, st.matches, <<>>)>>,
                     st.evald, st.nmatch)
       ELSE Returned(<<>>, st.evald, st.nmatch)

get_activations(self, factlist, seed) ==
    CASE self.type = "OR" -> ORGetActivations(self, factlist, seed)
      [] self.type = "NOT" -> NOTGetActivations(self, factlist, seed)
      [] OTHER -> RuleGetActivations(self, factlist, seed)

-----------------------------------------------------------------------------
(* Operations on the fact list and the conditional element *)

Store(kind) == [kind |-> kind, facts |-> facts]

NoCall == [op |-> "none"]

NColours == Cardinality({i \in 1..Len(facts) : facts[i] \in Colours})

\* FactList.declare: the sentinel is the first fact ever stored.
Declare(f, maxFacts) ==
    /\ IF f = "InitialFact" THEN facts = <<>> ELSE NColours < maxFacts
    /\ facts' = Append(facts, f)
    /\ res' = NoCall
    /\ UNCHANGED <<ce, fn, callres>>

Leaves == {Fact(c) : c \in Colours}

CondSeqs(pool) == UNION {[1..n -> pool] : n \in 0..MaxConds}

\* Rule(*conds), AND(*conds), OR(*conds), NOT(*conds)
Construct(type, conds, maxDepth) ==
    /\ Depth(RuleInit(type, conds)) <= maxDepth
    /\ ce' = RuleInit(type, conds)
    /\ fn' = "None"
    /\ res' = NoCall
    /\ callres' = NoCall
    /\ UNCHANGED facts

\* ce.get_activations(store)
GetActivations(kind, seed) ==
    /\ res' = [op |-> "get_activations", store |-> kind,
               out |-> get_activations(ce, Store(kind), seed)]
    /\ UNCHANGED <<facts, ce, fn, callres>>

-----------------------------------------------------------------------------
(* Rule.__call__ *)

\* Values passed positionally: None, two functions, and a value that is
\* no function.
Functions == {"f", "g"}
Values == {"None"} \cup Functions \cup {"v"}

\* Keyword arguments and Contexts are sets of <<name, value>> bindings.
Names(kw) == {b[1] : b \in kw}

\* dict.update
Update(kw, c) == {b \in kw : b[1] \notin Names(c)} \cup c

\* The loop over activation.facts: kwargs.update(contexts.get(fact, {})).
\* update(None) raises TypeError.
RECURSIVE UpdateAll(_, _, _)
UpdateAll(acc, contexts, fs) ==
    IF fs = <<>> \/ acc.err /= "none" THEN acc
    ELSE LET c == DictGet(contexts, Head(fs), Ctx(EmptyContext))
         IN UpdateAll(IF c.none THEN [acc EXCEPT !.err = "TypeError"]
                      ELSE [acc EXCEPT !.kw = Update(@, c.b)],
                      contexts, Tail(fs))

NoActivation == [present |-> FALSE, facts |-> <<>>, contexts |-> <<>>]

\* The keyword arguments after the activation block of __call__.
CallKwargs(kwargs, act) ==
    IF act.present
    THEN UpdateAll([err |-> "none", kw |-> kwargs], Dict(act.contexts),
                   act.facts)
    ELSE [err |-> "none", kw |-> kwargs]

\* The positional arguments handed to the consequence.
CallArgs(pos) ==
    LET fst == IF pos = <<>> THEN "None" ELSE Head(pos)
        args == IF pos = <<>> THEN <<>> ELSE Tail(pos)
    IN (IF fst = "None" THEN <<>> ELSE <<fst>>) \o args

\* self(*pos, **kwargs) or self(*pos, activation=act, **kwargs)
Call(pos, kwargs, act) ==
    LET fst == IF pos = <<>> THEN "None" ELSE Head(pos)
        k == CallKwargs(kwargs, act)
        in == [pos |-> pos, kwargs |-> kwargs, act |-> act, was |-> fn]
        out(outcome, err, ncalls, callee, args, kw) ==
            [op |-> "call", in |-> in, outcome |-> outcome, err |-> err,
             ncalls |-> ncalls, callee |-> callee, args |-> args, kw |-> kw]
    IN /\ IF k.err /= "none"
          THEN /\ fn' = fn
               /\ callres' = out("raised", k.err, 0, "None", <<>>, {})
          ELSE IF fn = "None"
          THEN IF fst /= "None"
               THEN /\ fn' = fst
                    /\ callres' = out("self", "none", 0, "None", <<>>, {})
               ELSE /\ fn' = fn
                    /\ callres' =
                         out("raised", "AttributeError", 0, "None", <<>>, {})
          ELSE /\ fn' = fn
               /\ callres' =
                    IF fn \in Functions
                    THEN out("called", "none", 1, fn, CallArgs(pos), k.kw)
                    ELSE out("raised", "TypeError", 0, "None", <<>>, {})
       /\ UNCHANGED <<facts, ce, res>>

\* The invocations explored.
Positionals == UNION {[1..n -> Values] : n \in 0..MaxArgs}

Kwargs == {{}, {<<"color", "green">>, <<"k", "1">>}}

Entries(i, vals) == {<<>>} \cup {<<[key |-> Id(i), val |-> v]>> : v \in vals}

Activations ==
    {NoActivation} \cup
    {[present |-> TRUE, facts |-> fs, contexts |-> e1 \o e2] :
        fs \in {<<Id(1), Id(2)>>, <<Id(2), Id(1)>>},
        e1 \in Entries(1, {Ctx({<<"color", "red">>}), None}),
        e2 \in {<<[key |-> Id(2), val |-> Ctx({<<"color", "blue">>})]>>}}

Init ==
    /\ facts = <<>>
    /\ ce = RuleInit("Rule", <<>>)
    /\ res = NoCall
    /\ fn = "None"
    /\ callres = NoCall

\* Conditional elements over the leaf patterns and the element built before.
Next ==
    \/ \E f \in Colours \cup {"InitialFact"} : Declare(f, MaxFacts)
    \/ \E type \in RuleTypes, conds \in CondSeqs(Leaves \cup {ce}) :
          Construct(type, conds, MaxDepth)
    \/ \E kind \in StoreKinds, seed \in 0..MaxSeed : GetActivations(kind, seed)

\* Conditional elements over leaf patterns only, on larger fact lists.
NextFlat ==
    \/ \E f \in Colours \cup {"InitialFact"} : Declare(f, FlatFacts)
    \/ \E type \in RuleTypes, conds \in CondSeqs(Leaves) :
          Construct(type, conds, MaxDepth)
    \/ \E kind \in StoreKinds, seed \in 0..MaxSeed : GetActivations(kind, seed)

\* Deeper nesting of conjunctions and disjunctions, on small fact lists.
NextDeep ==
    \/ \E f \in Colours : Declare(f, DeepFacts)
    \/ \E type \in {"Rule", "OR"}, conds \in CondSeqs(Leaves \cup {ce}) :
          Construct(type, conds, DeepDepth)
    \/ \E seed \in 0..MaxSeed : GetActivations("FactList", seed)

\* Invocations of freshly constructed elements.
NextCall ==
    \/ \E type \in RuleTypes : Construct(type, <<>>, MaxDepth)
    \/ \E pos \in Positionals, kwargs \in Kwargs, act \in Activations :
          Call(pos, kwargs, act)

Spec == Init /\ [][Next]_vars
SpecCall == Init /\ [][NextCall]_vars
SpecFlat == Init /\ [][NextFlat]_vars
SpecDeep == Init /\ [][NextDeep]_vars

-----------------------------------------------------------------------------
(* Properties *)

ToSet(s) == {s[i] : i \in 1..Len(s)}

IsConjunction(c) == c.type \in {"Rule", "AND"}

\* ce was just evaluated against the fact list itself.
Evaluated == res.op = "get_activations" /\ res.store = "FactList"

\* The ids of the stored facts a leaf pattern matches.
MatchIds(cond) == {i \in 0..(Len(facts) - 1) : facts[i + 1] = cond.pat}

Binding(i) == [key |-> Id(i), val |-> Ctx(ContextOf(facts[i + 1]))]

\* The activation the pair (a, b) of a two-pattern conjunction stands for.
PairActivation(a, b) ==
    [rule |-> ce,
     facts |-> IF a < b THEN <<Id(a), Id(b)>> ELSE <<Id(b), Id(a)>>,
     bindings |-> {Binding(a), Binding(b)}]

\* An activation with its contexts read as a mapping.
AsMatch(act) ==
    [rule |-> act.rule, facts |-> act.facts, bindings |-> ToSet(act.contexts)]

TwoLeaves ==
    /\ IsConjunction(ce)
    /\ Len(ce.conds) = 2
    /\ IsFact(ce.conds[1])
    /\ IsFact(ce.conds[2])

\* C1: a conjunction of two leaf patterns whose match sets A and B are
\* non-empty and disjoint returns exactly |A|*|B| distinct activations, one
\* per pair (a, b) of A x B, with rule the evaluated element, facts the two
\* ids in ascending order and contexts the two facts' Contexts.
C1_Product ==
    (Evaluated /\ TwoLeaves) =>
        LET A == MatchIds(ce.conds[1])
            B == MatchIds(ce.conds[2])
            acts == res.out.acts
        IN (A /= {} /\ B /= {} /\ A \cap B = {}) =>
              /\ res.out.err = "none"
              /\ Len(acts) = Cardinality(A) * Cardinality(B)
              /\ Cardinality(ToSet(acts)) = Len(acts)
              /\ \A i \in 1..Len(acts) : Len(acts[i].contexts) = 2
              /\ {AsMatch(acts[i]) : i \in 1..Len(acts)}
                    = {PairActivation(a, b) : a \in A, b \in B}

C1_Witness ==
    /\ Evaluated
    /\ TwoLeaves
    /\ Cardinality(MatchIds(ce.conds[1])) = 2
    /\ Cardinality(MatchIds(ce.conds[2])) = 2
    /\ MatchIds(ce.conds[1]) \cap MatchIds(ce.conds[2]) = {}
    /\ Len(res.out.acts) = 4

\* What evaluating child i of ce against the fact list gives.
ChildOut(i) == get_activations(ce.conds[i], Store("FactList"), 0)

ChildHasMatch(i) ==
    IF IsFact(ce.conds[i]) THEN MatchIds(ce.conds[i]) /= {}
    ELSE ChildOut(i).err = "none" /\ ChildOut(i).acts /= <<>>

ChildHasNone(i) ==
    IF IsFact(ce.conds[i]) THEN MatchIds(ce.conds[i]) = {}
    ELSE ChildOut(i).err = "none" /\ ChildOut(i).acts = <<>>

\* C2: an OR returns exactly one activation when at least one child has a
\* match, whatever the order of the children, and none when no child has.
C2_OrAnyChild ==
    (Evaluated /\ ce.type = "OR") =>
        /\ (\E i \in 1..Len(ce.conds) : ChildHasMatch(i))
              => (res.out.err = "none" /\ Len(res.out.acts) = 1)
        /\ (\A i \in 1..Len(ce.conds) : ChildHasNone(i))
              => (res.out.err = "none" /\ Len(res.out.acts) = 0)

HasSentinel == \E i \in 1..Len(facts) : facts[i] = "InitialFact"

SentinelId == CHOOSE i \in 0..(Len(facts) - 1) : facts[i + 1] = "InitialFact"

\* The conjunction of ce's children.
Conjunction ==
    RuleGetActivations([ce EXCEPT !.type = "AND"], Store("FactList"), 0)

C4_NoDuplicateMatch ==
    (Evaluated /\ IsConjunction(ce) /\ res.out.err = "none") =>
        \A i, j \in 1..Len(res.out.acts) :
            AsMatch(res.out.acts[i]) = AsMatch(res.out.acts[j]) => i = j

\* C5: a conjunction with a child that has no match returns no activation,
\* and evaluates no child declared after the first such child.
C5_ShortCircuit ==
    (Evaluated /\ IsConjunction(ce)) =>
        \A i \in 1..Len(ce.conds) :
            (ChildHasNone(i) /\ \A k \in 1..(i - 1) : ~ChildHasNone(k)) =>
                /\ res.out.err = "none"
                /\ res.out.acts = <<>>
                /\ \A k \in 1..Len(res.out.evald) : res.out.evald[k] <= i

\* C6: get_activations on something that is no FactList raises ValueError
\* before any matches() call and before any child is evaluated.
C6_InvalidStore ==
    (res.op = "get_activations" /\ res.store /= "FactList") =>
        /\ res.out.err = "ValueError"
        /\ res.out.nmatch = 0
        /\ res.out.evald = <<>>

\* An invocation whose sole argument is a bare function.
BindingCall(in) ==
    /\ Len(in.pos) = 1
    /\ in.pos[1] \in Functions
    /\ in.kwargs = {}
    /\ ~in.act.present

\* C7: on an element with no consequence bound, every invocation that is
\* not a binding invocation raises the unbound-consequence error and leaves
\* the element unbound.
C7_UnboundFiring ==
    (callres.op = "call" /\ callres.in.was = "None"
        /\ ~BindingCall(callres.in)) =>
        /\ callres.err = "AttributeError"
        /\ fn = "None"

\* The keyword arguments a firing is to pass: the caller's, overwritten by
\* the Contexts of the activation's facts, a later fact winning.
Binds(act, k, name) ==
    LET c == DictGet(Dict(act.contexts), act.facts[k], Ctx(EmptyContext))
    IN ~c.none /\ name \in Names(c.b)

ExpectedKwargs(kwargs, act) ==
    LET bound == {name \in {"color", "k"} :
                     \E k \in 1..Len(act.facts) : Binds(act, k, name)}
        last(name) == CHOOSE k \in 1..Len(act.facts) :
                         /\ Binds(act, k, name)
                         /\ \A m \in (k + 1)..Len(act.facts) :
                               ~Binds(act, m, name)
        value(name) ==
            LET c == DictGet(Dict(act.contexts), act.facts[last(name)],
                             Ctx(EmptyContext)).b
            IN CHOOSE v \in {"red", "blue", "green", "1"} : <<name, v>> \in c
    IN {b \in kwargs : b[1] \notin bound}
          \cup {<<name, value(name)>> : name \in bound}

\* C8: the first invocation with a bare function binds it and returns the
\* element without calling it; every later invocation leaves it bound and
\* calls it exactly once with the positional arguments as supplied and the
\* caller's keyword arguments overwritten by the activation's Contexts.
C8_TwoPhase ==
    (callres.op = "call") =>
        /\ (callres.in.was = "None" /\ BindingCall(callres.in)) =>
              /\ fn = callres.in.pos[1]
              /\ callres.outcome = "self"
              /\ callres.ncalls = 0
        /\ (callres.in.was \in Functions) =>
              /\ fn = callres.in.was
              /\ callres.outcome = "called"
              /\ callres.ncalls = 1
              /\ callres.callee = callres.in.was
              /\ callres.args = callres.in.pos
              /\ callres.kw = ExpectedKwargs(callres.in.kwargs, callres.in.act)

\* C9: a composite child is one dimension of the product, so an activation
\* takes one candidate per child; Rule(AND(P)) with P matching n >= 1 facts
\* yields n activations of one fact each.
C9_OneDimensionPerChild ==
    (Evaluated /\ IsConjunction(ce) /\ res.out.err = "none") =>
        /\ \A i \in 1..Len(res.out.acts) :
              Len(res.out.acts[i].facts) <= Len(ce.conds)
        /\ (/\ Len(ce.conds) = 1
            /\ ce.conds[1].type = "AND"
            /\ Len(ce.conds[1].conds) = 1
            /\ IsFact(ce.conds[1].conds[1])
            /\ MatchIds(ce.conds[1].conds[1]) /= {}) =>
              /\ Len(res.out.acts) = Cardinality(MatchIds(ce.conds[1].conds[1]))
              /\ \A i \in 1..Len(res.out.acts) : Len(res.out.acts[i].facts) = 1

\* The ids a leaf pattern matches, in fact-list order.
RECURSIVE MatchIdSeq(_, _)
MatchIdSeq(cond, i) ==
    IF i > Len(facts) THEN <<>>
    ELSE (IF facts[i] = cond.pat THEN <<Id(i - 1)>> ELSE <<>>)
            \o MatchIdSeq(cond, i + 1)

\* C10: the activation an OR emits lists, as fact identifiers, all matches
\* of child 1 in fact-list order, then all matches of child 2, and so on,
\* every child being evaluated once; its contexts is empty.
C10_OrFacts ==
    (Evaluated /\ ce.type = "OR" /\ res.out.err = "none"
        /\ res.out.acts /= <<>>) =>
        LET act == res.out.acts[1]
        IN /\ act.contexts = <<>>
           /\ res.out.evald = [i \in 1..Len(ce.conds) |-> i]
           /\ \A k \in 1..Len(act.facts) : ~act.facts[k].pair
           /\ (\A i \in 1..Len(ce.conds) : IsFact(ce.conds[i])) =>
                 act.facts =
                    Concat([i \in 1..Len(ce.conds) |->
                              MatchIdSeq(ce.conds[i], 1)])

=============================================================================
